---------------------------- MODULE Spec2Model ----------------------------
(***************************************************************************)
(* A model of the abbreviation input mode of vscode-lean (src/src/input.ts)*)
(*                                                                         *)
(*   - the translation tables and the two pure queries over them           *)
(*     (LeanInputAbbreviator.findReplacement and                           *)
(*     LeanInputExplanationHover.getAbbrevations / provideHover),          *)
(*   - the per-editor session TextEditorAbbrevHandler, driven by the       *)
(*     change and selection events of the host editor,                     *)
(*   - the listeners of LeanInputAbbreviator over several editors, and its *)
(*     configuration as it changes.                                        *)
(*                                                                         *)
(* A JavaScript string is a sequence of one-character strings, a           *)
(* JavaScript object used as a dictionary is the sequence of its entries   *)
(* in iteration order (the keys of the model are never integer-like, so    *)
(* iteration order is insertion order).                                    *)
(***************************************************************************)
EXTENDS Integers, Sequences, FiniteSets, TLC

VARIABLES
    translations,        \* LeanInputAbbreviator.translations (the base table)
    customTranslations,  \* lean.input.customTranslations as last read
    allTranslations,     \* LeanInputAbbreviator.allTranslations
    leader,              \* LeanInputAbbreviator.leader
    call,                \* the last query made and what it returned
    activeEditor,        \* window.activeTextEditor
    supported,           \* the editors whose document matches lean.input.languages
    handlers,            \* the keys of LeanInputAbbreviator.handlers
    active,              \* TextEditorAbbrevHandler.active, per editor
    decorations,         \* the ranges last given to editor.setDecorations, per editor
    doc,                 \* editor.document: its lines, per editor
    selections,          \* editor.selections as the extension host sees them
    pendingSel,          \* the selection event the host has queued behind a change
    edits,               \* the edit requests issued and not yet applied, per editor
    last,                \* the last event handled, what it saw and what it issued
    events               \* the number of user events so far

tableVars == <<translations, customTranslations, allTranslations, leader>>

hostVars == <<activeEditor, supported>>

editorVars == <<handlers, active, decorations, doc, selections, pendingSel, edits,
                last, events>>

vars == <<translations, customTranslations, allTranslations, leader, call,
          activeEditor, supported, handlers, active, decorations, doc, selections,
          pendingSel, edits, last, events>>

---------------------------------------------------------------------------
(* Bounds of the model.                                                    *)

MaxEntries == 2
    \* entries of the base and the custom table together
MaxTyped == 3
    \* length of an abbreviation handed to findReplacement
MaxLineLen == 5
    \* characters a line of a document may grow to
MaxEvents == 4
    \* user events (typing, backspace, cursor moves, commands) in one run
MaxEdits == 2
    \* edit requests of one editor that may wait for the host

(* The characters abbreviations are made of, and the symbols they map to.  *)
(* A symbol is any string: the empty string is one of them.                *)
AbbrevChars == {"a", "b", "c"}

Keys == {<<"a">>, <<"a", "b">>, <<"a", "c">>, <<"a", "b", "c">>, <<"b">>}

Symbols == {<< >>, <<"X">>, <<"Y">>}

---------------------------------------------------------------------------
(* JavaScript values a query returns: a string, undefined or null.         *)

JsString(s) == [tag |-> "string", str |-> s]

Undefined == [tag |-> "undefined", str |-> << >>]

Null == [tag |-> "null", str |-> << >>]

(* ToBoolean: undefined, null and the empty string are falsy.              *)
Truthy(v) == v.tag = "string" /\ v.str # << >>

(* s.startsWith(p) *)
StartsWith(s, p) == Len(p) <= Len(s) /\ SubSeq(s, 1, Len(p)) = p

(* s.slice(0, s.length - 1) *)
DropLast(s) == SubSeq(s, 1, Len(s) - 1)

(* s.slice(s.length - 1) *)
LastChar(s) == SubSeq(s, Len(s), Len(s))

---------------------------------------------------------------------------
(* Dictionaries.                                                           *)

KeysOf(t) == {t[i].k : i \in 1..Len(t)}

HasKey(t, key) == \E i \in 1..Len(t) : t[i].k = key

IndexOfKey(t, key) == CHOOSE i \in 1..Len(t) : t[i].k = key

(* t[key]: the value of the property, undefined when there is none.        *)
Get(t, key) ==
    IF HasKey(t, key) THEN JsString(t[IndexOfKey(t, key)].v) ELSE Undefined

(* t[key] = value on an object: an existing property keeps its place in    *)
(* the iteration order, a new one goes last.                               *)
SetProp(t, key, value) ==
    IF HasKey(t, key)
    THEN [t EXCEPT ![IndexOfKey(t, key)] = [k |-> key, v |-> value]]
    ELSE Append(t, [k |-> key, v |-> value])

RECURSIVE SpreadInto(_, _, _)
SpreadInto(target, source, i) ==
    IF i > Len(source) THEN target
    ELSE SpreadInto(SetProp(target, source[i].k, source[i].v), source, i + 1)

(* The spread in the other order: the base table wins.                     *)
MergeBaseWins(base, custom) == SpreadInto(custom, base, 1)

(* { ...this.translations, ...this.customTranslations } *)
MergeTranslations(base, custom) == SpreadInto(base, custom, 1)

---------------------------------------------------------------------------
(* LeanInputAbbreviator.findReplacement                                    *)

(* The loop with <= for <: among extensions of one length the last wins.   *)
RECURSIVE ShortestExtensionLastWins(_, _, _, _)
ShortestExtensionLastWins(t, typedAbbrev, i, shortest) ==
    IF i > Len(t) THEN shortest
    ELSE LET abbrev == t[i].k
             take == /\ StartsWith(abbrev, typedAbbrev)
                     /\ (~Truthy(shortest) \/ Len(abbrev) <= Len(shortest.str))
         IN ShortestExtensionLastWins(t, typedAbbrev, i + 1,
                IF take THEN JsString(abbrev) ELSE shortest)

(* The for-in loop of findReplacement from entry i on, `shortest` being    *)
(* the value of shortestExtension so far (Null before the first hit).      *)
RECURSIVE ShortestExtensionFrom(_, _, _, _)
ShortestExtensionFrom(t, typedAbbrev, i, shortest) ==
    IF i > Len(t) THEN shortest
    ELSE LET abbrev == t[i].k
             take == /\ StartsWith(abbrev, typedAbbrev)
                     /\ (~Truthy(shortest) \/ Len(abbrev) < Len(shortest.str))
         IN ShortestExtensionFrom(t, typedAbbrev, i + 1,
                IF take THEN JsString(abbrev) ELSE shortest)

ShortestExtension(t, typedAbbrev) == ShortestExtensionFrom(t, typedAbbrev, 1, Null)

(* findReplacement without its exact-match test and with the loop taking   *)
(* proper extensions only.                                                 *)
RECURSIVE FindReplacementNoExact(_, _)
FindReplacementNoExact(t, typedAbbrev) ==
    IF typedAbbrev = << >> THEN Undefined
    ELSE LET proper == SelectSeq(t, LAMBDA e : e.k # typedAbbrev)
             shortestExtension == ShortestExtensionFrom(proper, typedAbbrev, 1, Null) IN
         IF Truthy(shortestExtension) THEN Get(t, shortestExtension.str)
         ELSE LET prefixReplacement == FindReplacementNoExact(t, DropLast(typedAbbrev)) IN
              IF Truthy(prefixReplacement)
              THEN JsString(prefixReplacement.str \o LastChar(typedAbbrev))
              ELSE Null

RECURSIVE FindReplacementIn(_, _)
FindReplacementIn(t, typedAbbrev) ==
    IF typedAbbrev = << >> THEN Undefined
    ELSE IF Truthy(Get(t, typedAbbrev)) THEN Get(t, typedAbbrev)
    ELSE LET shortestExtension == ShortestExtension(t, typedAbbrev) IN
         IF Truthy(shortestExtension) THEN Get(t, shortestExtension.str)
         ELSE LET prefixReplacement == FindReplacementIn(t, DropLast(typedAbbrev)) IN
              IF Truthy(prefixReplacement)
              THEN JsString(prefixReplacement.str \o LastChar(typedAbbrev))
              ELSE Null

(* The nested calls with the recursive call on the input less its first    *)
(* character.                                                              *)
RECURSIVE FindReplacementCallsDropFirst(_, _)
FindReplacementCallsDropFirst(t, typedAbbrev) ==
    IF typedAbbrev = << >> THEN << [arg |-> typedAbbrev, consulted |-> FALSE] >>
    ELSE << [arg |-> typedAbbrev, consulted |-> TRUE] >>
         \o (IF Truthy(Get(t, typedAbbrev)) THEN << >>
             ELSE IF Truthy(ShortestExtension(t, typedAbbrev)) THEN << >>
             ELSE FindReplacementCallsDropFirst(t, Tail(typedAbbrev)))

(* The nested calls findReplacement(typedAbbrev) makes, the outermost      *)
(* first: the argument of each, and whether the call reads the table (the  *)
(* call of the empty string returns before it does).                       *)
RECURSIVE FindReplacementCalls(_, _)
FindReplacementCalls(t, typedAbbrev) ==
    IF typedAbbrev = << >> THEN << [arg |-> typedAbbrev, consulted |-> FALSE] >>
    ELSE << [arg |-> typedAbbrev, consulted |-> TRUE] >>
         \o (IF Truthy(Get(t, typedAbbrev)) THEN << >>
             ELSE IF Truthy(ShortestExtension(t, typedAbbrev)) THEN << >>
             ELSE FindReplacementCalls(t, DropLast(typedAbbrev)))

---------------------------------------------------------------------------
(* LeanInputExplanationHover                                               *)

RECURSIVE KeysMappingTo(_, _, _)
KeysMappingTo(t, symbol, i) ==
    IF i > Len(t) THEN << >>
    ELSE (IF t[i].v = symbol THEN <<t[i].k>> ELSE << >>)
         \o KeysMappingTo(t, symbol, i + 1)

RECURSIVE UnshadowedKeysMappingTo(_, _, _, _)
UnshadowedKeysMappingTo(base, custom, symbol, i) ==
    IF i > Len(base) THEN << >>
    ELSE (IF Truthy(Get(custom, base[i].k)) THEN << >>
          ELSE IF base[i].v = symbol THEN <<base[i].k>> ELSE << >>)
         \o UnshadowedKeysMappingTo(base, custom, symbol, i + 1)

GetAbbrevations(base, custom, symbol) ==
    KeysMappingTo(custom, symbol, 1) \o UnshadowedKeysMappingTo(base, custom, symbol, 1)

(* abbrevs.sort((a, b) => a.length - b.length): Array.prototype.sort is    *)
(* stable, so the elements of one length keep their order.                 *)
RECURSIVE SortByLengthFrom(_, _)
SortByLengthFrom(abbrevs, len) ==
    IF \A i \in 1..Len(abbrevs) : Len(abbrevs[i]) < len THEN << >>
    ELSE LET OfLen(a) == Len(a) = len
         IN SelectSeq(abbrevs, OfLen) \o SortByLengthFrom(abbrevs, len + 1)

(* provideHover without its sort.                                          *)
SortForgotten(abbrevs) == abbrevs

SortByLength(abbrevs) == SortByLengthFrom(abbrevs, 0)

(* provideHover: false when there is no abbreviation, else the Hover,      *)
(* whose message lists leader + abbreviation in the sorted order.          *)
RECURSIVE WithLeader(_, _, _)
WithLeader(ldr, abbrevs, i) ==
    IF i > Len(abbrevs) THEN << >>
    ELSE <<ldr \o abbrevs[i]>> \o WithLeader(ldr, abbrevs, i + 1)

ProvideHoverResult(base, custom, ldr, symbol) ==
    LET abbrevs == SortByLength(GetAbbrevations(base, custom, symbol))
    IN IF Len(abbrevs) > 0
       THEN [hover |-> TRUE, symbol |-> symbol, using |-> WithLeader(ldr, abbrevs, 1)]
       ELSE [hover |-> FALSE, symbol |-> symbol, using |-> << >>]


---------------------------------------------------------------------------
(* The editors, and the state every editor starts in: no handler yet (a    *)
(* handler is made on the first change event), a document of two lines and *)
(* one cursor at its start.                                                *)

Editors == {1, 2}

LineNumbers == {1, 2}

InitialDocuments == { << << >>, << >> >>, << <<"}", "}">>, << >> >> }

Cursor(line, character) == [line |-> line, anchor |-> character, active |-> character]

(* An edit request: who issued it, its replacements and the selections it  *)
(* sets (<< >> when it sets none); and, for the record, the number of the  *)
(* user event and the kind of event it was issued in, and how many         *)
(* requests waited before it.                                              *)
Request(by, repls, sels) ==
    [by |-> by, repls |-> repls, sels |-> sels, at |-> 0, on |-> "none", ahead |-> 0]

NoRequest == Request("none", << >>, << >>)

(* The record of the last event: the selections its handler read, the      *)
(* spans convert and update found, the requests issued and the request     *)
(* whose application the event reports.                                    *)
NoEvent ==
    [kind |-> "none", editor |-> 0, texts |-> << >>, wasActive |-> FALSE,
     seen |-> << >>, spans |-> << >>, ris |-> << >>, issued |-> << >>,
     applied |-> NoRequest]

EditorsInit ==
    /\ activeEditor = 1
    /\ supported = Editors
    /\ handlers = {}
    /\ active = [e \in Editors |-> FALSE]
    /\ decorations = [e \in Editors |-> << >>]
    /\ doc \in [Editors -> InitialDocuments]
    /\ selections = [e \in Editors |-> <<Cursor(1, 0)>>]
    /\ pendingSel = [e \in Editors |-> << >>]
    /\ edits = [e \in Editors |-> << >>]
    /\ last = NoEvent
    /\ events = 0

---------------------------------------------------------------------------
(* Text of the document, positions and ranges. A position is a line and a  *)
(* character offset, a selection has its anchor and its active end on one  *)
(* line (a selection over several lines is non-empty, so isSingleLine adds *)
(* nothing to isEmpty in getRangeInfo), and the cursors of one editor are  *)
(* on different lines.                                                     *)

Whitespace == {" "}

Backslash == "\\"

Min(a, b) == IF a <= b THEN a ELSE b

Max(a, b) == IF a >= b THEN a ELSE b

IsEmpty(sel) == sel.anchor = sel.active

SelStart(sel) == Min(sel.anchor, sel.active)

SelEnd(sel) == Max(sel.anchor, sel.active)

(* document.getText(new Range(line, from, line, to)): the range is first   *)
(* validated, that is cut to the line.                                     *)
GetText(d, line, from, to) ==
    LET len == Len(d[line])
    IN SubSeq(d[line], Min(Max(from, 0), len) + 1, Min(Max(to, 0), len))

(* The pattern were it to match from the last backslash on.                *)
RegexExecLast(beforeCursor) ==
    LET starts == {j \in 1..Len(beforeCursor) :
                      /\ beforeCursor[j] = Backslash
                      /\ \A k \in (j + 1)..Len(beforeCursor) :
                            beforeCursor[k] \notin Whitespace}
    IN IF starts = {} THEN << >>
       ELSE SubSeq(beforeCursor, CHOOSE j \in starts : \A k \in starts : j >= k,
                   Len(beforeCursor))

(* /\\\S*?$/.exec(beforeCursor): the leftmost backslash with nothing but   *)
(* non-whitespace between it and the end; << >> when there is none. The    *)
(* pattern names the backslash, not the configured leader.                 *)
RegexExec(beforeCursor) ==
    LET starts == {j \in 1..Len(beforeCursor) :
                      /\ beforeCursor[j] = Backslash
                      /\ \A k \in (j + 1)..Len(beforeCursor) :
                            beforeCursor[k] \notin Whitespace}
    IN IF starts = {} THEN << >>
       ELSE SubSeq(beforeCursor, CHOOSE j \in starts : \A k \in starts : j <= k,
                   Len(beforeCursor))

---------------------------------------------------------------------------
(* TextEditorAbbrevHandler. Its methods are operators from what they read  *)
(* (the active flag, the document, the selections, the leader, the merged  *)
(* table) to what they leave: the active flag, the decorations, the        *)
(* selections and the edit requests issued, in order.                      *)

Outcome(act, decos, sels, issued) ==
    [active |-> act, decorated |-> TRUE, decorations |-> decos, selections |-> sels,
     issued |-> issued, spans |-> << >>, ris |-> << >>]

(* A handler that returns without a call of setDecorations.                *)
Untouched(act, sels) ==
    [active |-> act, decorated |-> FALSE, decorations |-> << >>, selections |-> sels,
     issued |-> << >>, spans |-> << >>, ris |-> << >>]

(* deactivate() without its call of setDecorations.                        *)
DeactivateKeepsDecorations(sels) == Untouched(FALSE, sels)

(* deactivate(), the decorations being what setDecorations was given.      *)
Deactivate(sels) == Outcome(FALSE, << >>, sels, << >>)

(* The loop of getRangeInfo that skips the active test: a RangeInfo per    *)
(* cursor whose text before it matches.                                   *)
RECURSIVE RangeInfoSkipActive(_, _, _, _)
RangeInfoSkipActive(d, sels, incrCursor, i) ==
    IF i > Len(sels) THEN << >>
    ELSE LET line == sels[i].line
             character == sels[i].active + incrCursor
             s == RegexExec(GetText(d, line, 0, character))
         IN (IF s = << >> THEN << >>
             ELSE << [index |-> i, line |-> line, start |-> character - Len(s),
                      end |-> character, text |-> s] >>)
            \o RangeInfoSkipActive(d, sels, incrCursor, i + 1)

(* getRangeInfo without the test of the selections.                        *)
GetRangeInfoAnySelection(act, d, sels, incrCursor) ==
    IF ~act THEN << >>
    ELSE RangeInfoSkipActive(d, sels, incrCursor, 1)

GetRangeInfo(act, d, sels, incrCursor) ==
    IF ~act THEN << >>
    ELSE IF \E i \in 1..Len(sels) : ~IsEmpty(sels[i]) THEN << >>
    ELSE RangeInfoSkipActive(d, sels, incrCursor, 1)

(* new Range(line, 0, line, character) throws for a negative character.    *)
GetRangeInfoThrows(act, sels, incrCursor) ==
    /\ act
    /\ \A i \in 1..Len(sels) : IsEmpty(sels[i])
    /\ \E i \in 1..Len(sels) : sels[i].active + incrCursor < 0

(* hackyReplacements: right is << >> where the source gives none.          *)
HackyReplacements(ldr) ==
    { [input |-> ldr \o <<"{", "{">>, repl |-> <<"lwb", "rwb">>, right |-> <<"}", "}">>],
      [input |-> ldr \o <<"[", "[">>, repl |-> <<"lsb", "rsb">>, right |-> <<"]", "]">>],
      [input |-> ldr \o <<"<", ">">>, repl |-> <<"lang", "rang">>, right |-> << >>] }

(* The test of update without its look at the text behind the span.       *)
ExpandsWithoutRight(d, ldr, ri) ==
    \E h \in HackyReplacements(ldr) : h.input = ri.text

(* Whether update replaces the span at once: it is a key of                *)
(* hackyReplacements and its right part, if any, follows it in the text.   *)
Expands(d, ldr, ri) ==
    \E h \in HackyReplacements(ldr) :
       /\ h.input = ri.text
       /\ (h.right # << >>
             => GetText(d, ri.line, ri.end, ri.end + Len(h.right)) = h.right)

HackyFor(ldr, ri) == CHOOSE h \in HackyReplacements(ldr) : h.input = ri.text

(* The entry update pushes on replacements for a span it expands.          *)
HackyEdit(ldr, ri) ==
    LET h == HackyFor(ldr, ri)
    IN [index |-> ri.index, line |-> ri.line, start |-> ri.start,
        end |-> ri.end + Len(h.right), text |-> JsString(h.repl), pos |-> ri.start + 1]

RECURSIVE HackyEdits(_, _, _, _)
HackyEdits(d, ldr, ris, i) ==
    IF i > Len(ris) THEN << >>
    ELSE (IF Expands(d, ldr, ris[i]) THEN <<HackyEdit(ldr, ris[i])>> ELSE << >>)
         \o HackyEdits(d, ldr, ris, i + 1)

(* The range of each span as update decorates it: the empty range at pos   *)
(* for a span it expands.                                                  *)
DecorationRanges(d, ldr, ris) ==
    [i \in 1..Len(ris) |->
       IF Expands(d, ldr, ris[i])
       THEN [line |-> ris[i].line, start |-> ris[i].start + 1, end |-> ris[i].start + 1]
       ELSE [line |-> ris[i].line, start |-> ris[i].start, end |-> ris[i].end]]

RECURSIVE WithCursorsAt(_, _, _)
WithCursorsAt(ss, replacements, i) ==
    IF i > Len(replacements) THEN ss
    ELSE WithCursorsAt(
            [ss EXCEPT ![replacements[i].index] =
                          Cursor(replacements[i].line, replacements[i].pos)],
            replacements, i + 1)

ReplacementsOf(entries) ==
    [i \in 1..Len(entries) |->
       [line |-> entries[i].line, start |-> entries[i].start, end |-> entries[i].end,
        text |-> entries[i].text]]

(* update(incrCursor), when getRangeInfo does not throw. The outcome keeps  *)
(* the spans update found in ris.                                          *)
Update(act, d, sels, ldr, incrCursor) ==
    LET ris == GetRangeInfo(act, d, sels, incrCursor)
        replacements == HackyEdits(d, ldr, ris, 1)
        ss == WithCursorsAt(sels, replacements, 1)
    IN IF Len(ris) = 0 THEN Deactivate(sels)
       ELSE IF Len(replacements) # 0
       THEN [Outcome(act, DecorationRanges(d, ldr, ris), ss,
                     << Request("update", ReplacementsOf(replacements), ss) >>)
               EXCEPT !.ris = ris]
       ELSE [Outcome(act, DecorationRanges(d, ldr, ris), sels, << >>)
               EXCEPT !.ris = ris]

(* The loop of convert: a replacement for every span of two characters or  *)
(* more, whatever findReplacement returns for it.                          *)
RECURSIVE ConvertReplacements(_, _, _)
ConvertReplacements(table, ris, i) ==
    IF i > Len(ris) THEN << >>
    ELSE (IF ris[i].end - ris[i].start < 2 THEN << >>
          ELSE << [line |-> ris[i].line, start |-> ris[i].start, end |-> ris[i].end,
                   text |-> FindReplacementIn(table, Tail(ris[i].text))] >>)
         \o ConvertReplacements(table, ris, i + 1)

(* convert() with an edit request of its own for every replacement.        *)
ConvertUnbatched(act, d, sels, table) ==
    LET ris == GetRangeInfo(act, d, sels, 0)
        replacements == ConvertReplacements(table, ris, 1)
    IN [Deactivate(sels) EXCEPT
          !.spans = ris,
          !.issued = [i \in 1..Len(replacements) |->
                        Request("convert", <<replacements[i]>>, << >>)]]

(* convert() without its calls of deactivate.                              *)
ConvertKeepsActive(act, d, sels, table) ==
    LET ris == GetRangeInfo(act, d, sels, 0)
        replacements == ConvertReplacements(table, ris, 1)
    IN IF Len(replacements) # 0
       THEN [Untouched(act, sels) EXCEPT
               !.spans = ris, !.issued = << Request("convert", replacements, << >>) >>]
       ELSE [Untouched(act, sels) EXCEPT !.spans = ris]

(* convert(). The request it leaves to a timer is taken as issued when     *)
(* convert returns: its ranges and texts are fixed by then. The outcome    *)
(* keeps the spans convert found in spans.                                 *)
Convert(act, d, sels, table) ==
    LET ris == GetRangeInfo(act, d, sels, 0)
        replacements == ConvertReplacements(table, ris, 1)
    IN IF Len(ris) = 0 THEN Deactivate(sels)
       ELSE IF Len(replacements) # 0
       THEN [Outcome(FALSE, << >>, sels, << Request("convert", replacements, << >>) >>)
               EXCEPT !.spans = ris]
       ELSE [Deactivate(sels) EXCEPT !.spans = ris]

Closers == {")", "}", "rang"}

(* change.text.match(/^\s+|[^{(]?[)}⟩]$/)                                  *)
MatchesCompleting(text) ==
    \/ Len(text) >= 1 /\ text[1] \in Whitespace
    \/ \E p \in 1..Len(text) :
          \/ p = Len(text) /\ text[p] \in Closers
          \/ /\ p = Len(text) - 1
             /\ text[p] \notin {"{", "("}
             /\ text[p + 1] \in Closers

(* The argument of update were a deletion no case of its own.              *)
IncrOfLength(text) == Len(text)

(* The argument of the update call that ends onChanged while active: -1   *)
(* for a deletion, else the length of the inserted text.                   *)
IncrOf(text) == IF text = << >> THEN 0 - 1 ELSE Len(text)

(* onChanged without the test of the inserted text of an inactive session: *)
(* any change activates.                                                   *)
OnChangedAnyText(act, d, sels, ldr, table, texts) ==
    IF Len(texts) = 0 THEN Untouched(act, sels)
    ELSE LET change == texts[1] IN
         IF ~act THEN Update(TRUE, d, sels, ldr, 1)
         ELSE IF change = ldr
         THEN LET c == Convert(act, d, sels, table)
                  u == Update(TRUE, d, sels, ldr, 0)
              IN [u EXCEPT !.issued = c.issued \o u.issued, !.spans = c.spans]
         ELSE IF MatchesCompleting(change) THEN Convert(act, d, sels, table)
         ELSE IF GetRangeInfoThrows(act, sels, IncrOf(change))
         THEN Untouched(act, sels)
         ELSE Update(act, d, sels, ldr, IncrOf(change))

(* onChanged(ev), texts being the text of each content change. A throw of  *)
(* getRangeInfo (only update(-1) can make it throw) ends the handler where *)
(* it stands.                                                              *)
OnChanged(act, d, sels, ldr, table, texts) ==
    IF Len(texts) = 0 THEN Untouched(act, sels)
    ELSE LET change == texts[1] IN
         IF ~act
         THEN IF change = ldr THEN Update(TRUE, d, sels, ldr, 1)
              ELSE Untouched(act, sels)
         ELSE IF change = ldr
         THEN LET c == Convert(act, d, sels, table)
                  u == Update(TRUE, d, sels, ldr, 0)
              IN [u EXCEPT !.issued = c.issued \o u.issued, !.spans = c.spans]
         ELSE IF MatchesCompleting(change) THEN Convert(act, d, sels, table)
         ELSE IF GetRangeInfoThrows(act, sels, IncrOf(change))
         THEN Untouched(act, sels)
         ELSE Update(act, d, sels, ldr, IncrOf(change))

(* onSelectionChanged(ev) *)
OnSelectionChanged(act, d, sels, ldr) == Update(act, d, sels, ldr, 0)

---------------------------------------------------------------------------
(* The tables a configuration can give: the entries of an object in        *)
(* iteration order, no key twice.                                          *)

Entries == [k : Keys, v : Symbols]

TablesOfSize(n) ==
    {t \in [1..n -> Entries] : \A i, j \in 1..n : i # j => t[i].k # t[j].k}

RECURSIVE StringsOfLength(_)
StringsOfLength(n) ==
    IF n = 0 THEN {<< >>}
    ELSE {Append(s, c) : s \in StringsOfLength(n - 1), c \in AbbrevChars}

TypedAbbrevs == UNION {StringsOfLength(n) : n \in 0..MaxTyped}

NoCall == [op |-> "none"]

(* The constructor of LeanInputAbbreviator: the base table is copied, the  *)
(* custom translations and the leader are read from the configuration.     *)
TableInit ==
    /\ \E n \in 0..MaxEntries, m \in 0..MaxEntries :
          /\ n + m <= MaxEntries
          /\ translations \in TablesOfSize(n)
          /\ customTranslations \in TablesOfSize(m)
    /\ allTranslations = MergeTranslations(translations, customTranslations)
    /\ leader = <<"\\">>
    /\ call = NoCall
    /\ EditorsInit
    /\ doc = [e \in Editors |-> << << >>, << >> >>]

(* findReplacement(typedAbbrev) on the merged table. The queries change    *)
(* nothing, so a run of the table specification makes one.                 *)
FindReplacement(typedAbbrev) ==
    /\ call = NoCall
    /\ call' = [op |-> "findReplacement", arg |-> typedAbbrev,
                result |-> FindReplacementIn(allTranslations, typedAbbrev),
                calls |-> FindReplacementCalls(allTranslations, typedAbbrev)]
    /\ UNCHANGED <<tableVars, hostVars, editorVars>>

(* provideHover over a character of the document that reads `symbol`.      *)
ProvideHover(symbol) ==
    /\ call = NoCall
    /\ call' = [op |-> "provideHover", arg |-> symbol,
                abbrevs |-> GetAbbrevations(translations, customTranslations, symbol),
                result |-> ProvideHoverResult(translations, customTranslations,
                                              leader, symbol)]
    /\ UNCHANGED <<tableVars, hostVars, editorVars>>

TableNext ==
    \/ \E typedAbbrev \in TypedAbbrevs : FindReplacement(typedAbbrev)
    \/ \E symbol \in Symbols : ProvideHover(symbol)

SpecTable == TableInit /\ [][TableNext]_vars

---------------------------------------------------------------------------
(* The host editor: what typing, deleting and an applied edit do to the    *)
(* document and to the cursors.                                            *)

ReplaceInLine(l, from, to, text) ==
    LET f == Min(Max(from, 0), Len(l))
        t == Max(f, Min(to, Len(l)))
    IN SubSeq(l, 1, f) \o text \o SubSeq(l, t + 1, Len(l))

OnLine(sels, line) == {i \in 1..Len(sels) : sels[i].line = line}

SelOnLine(sels, line) == sels[CHOOSE i \in OnLine(sels, line) : TRUE]

(* Typing text replaces every selection by it and leaves each cursor       *)
(* behind what it inserted.                                                *)
TypeInto(d, sels, text) ==
    [line \in DOMAIN d |->
       IF OnLine(sels, line) = {} THEN d[line]
       ELSE ReplaceInLine(d[line], SelStart(SelOnLine(sels, line)),
                          SelEnd(SelOnLine(sels, line)), text)]

AfterTyping(sels, text) ==
    [i \in 1..Len(sels) |-> Cursor(sels[i].line, SelStart(sels[i]) + Len(text))]

(* Backspace deletes a non-empty selection, or the character before an     *)
(* empty one.                                                              *)
DeletedFrom(sel) == IF IsEmpty(sel) THEN sel.active - 1 ELSE SelStart(sel)

DeleteFrom(d, sels) ==
    [line \in DOMAIN d |->
       IF OnLine(sels, line) = {} THEN d[line]
       ELSE ReplaceInLine(d[line], DeletedFrom(SelOnLine(sels, line)),
                          SelEnd(SelOnLine(sels, line)), << >>)]

AfterDeleting(sels) ==
    [i \in 1..Len(sels) |-> Cursor(sels[i].line, DeletedFrom(sels[i]))]

(* The text the host inserts for a replacement: null and undefined insert  *)
(* nothing.                                                                *)
TextOf(v) == IF v.tag = "string" THEN v.str ELSE << >>

ReplOnLine(repls, line) == {i \in 1..Len(repls) : repls[i].line = line}

ApplyReplacements(d, repls) ==
    [line \in DOMAIN d |->
       IF ReplOnLine(repls, line) = {} THEN d[line]
       ELSE LET r == repls[CHOOSE i \in ReplOnLine(repls, line) : TRUE]
            IN ReplaceInLine(d[line], r.start, r.end, TextOf(r.text))]

(* Where the host leaves an offset of a line after a replacement on it: as *)
(* it was before the range, moved by the change of length behind it, and   *)
(* inside the range either at the same distance from its start or behind   *)
(* the inserted text.                                                      *)
MovedOffset(l, r, offset, stick) ==
    LET f == Min(Max(r.start, 0), Len(l))
        t == Max(f, Min(r.end, Len(l)))
        n == Len(TextOf(r.text))
    IN IF offset <= f THEN offset
       ELSE IF offset >= t THEN offset + n - (t - f)
       ELSE IF stick = "keep" THEN f + Min(offset - f, n)
       ELSE f + n

MovedSelections(d, repls, sels, stick) ==
    [i \in 1..Len(sels) |->
       IF ReplOnLine(repls, sels[i].line) = {} THEN sels[i]
       ELSE LET r == repls[CHOOSE k \in ReplOnLine(repls, sels[i].line) : TRUE]
                l == d[sels[i].line]
            IN [line |-> sels[i].line,
                anchor |-> MovedOffset(l, r, sels[i].anchor, stick),
                active |-> MovedOffset(l, r, sels[i].active, stick)]]

(* The selections the user can set: one cursor anywhere on the first line  *)
(* or at the end of the second, a cursor at the end of both lines, the     *)
(* whole first line selected, alone or with a cursor on the second line.   *)
SelectionChoices(d) ==
    {<<Cursor(1, c)>> : c \in 0..Len(d[1])}
    \cup {<<Cursor(2, Len(d[2]))>>}
    \cup {<<Cursor(1, Len(d[1])), Cursor(2, Len(d[2]))>>}
    \cup (IF Len(d[1]) = 0 THEN {}
          ELSE { <<[line |-> 1, anchor |-> 0, active |-> Len(d[1])]>>,
                 <<[line |-> 1, anchor |-> 0, active |-> Len(d[1])],
                   Cursor(2, Len(d[2]))>> })

---------------------------------------------------------------------------
(* LeanInputAbbreviator: the listeners and the convert command.            *)

(* The tests without the one of the active editor.                         *)
DispatchedOfAnyEditor(e) == e \in supported

(* The tests of LeanInputAbbreviator.onChanged / onSelectionChanged: the   *)
(* event is of the active editor and of a supported file.                  *)
Dispatched(e) == e = activeEditor /\ e \in supported

(* The requests a handler issued, marked with the event they come from.    *)
Stamped(issued, n, kind, queue) ==
    [i \in 1..Len(issued) |->
       [issued[i] EXCEPT !.at = n, !.on = kind, !.ahead = Len(queue) + i - 1]]

(* The handlers with one active flag and one decoration set between all    *)
(* editors, as if they were fields of LeanInputAbbreviator.                *)
HandledSharedSession(e, kind, texts, seen, h, queue, applied, n) ==
    /\ active' = [x \in Editors |-> h.active]
    /\ decorations' = [x \in Editors |->
                         IF h.decorated THEN h.decorations ELSE decorations[x]]
    /\ selections' = [selections EXCEPT ![e] = h.selections]
    /\ edits' = [edits EXCEPT ![e] = queue \o Stamped(h.issued, n, kind, queue)]
    /\ Len(edits'[e]) <= MaxEdits
    /\ last' = [kind |-> kind, editor |-> e, texts |-> texts,
                wasActive |-> active[e], seen |-> seen, spans |-> h.spans,
                ris |-> h.ris, issued |-> Stamped(h.issued, n, kind, queue),
                applied |-> applied]

(* The state an event of editor e leaves when its handler ran with outcome *)
(* h: seen are the selections the handler read, queue the requests that    *)
(* waited before it, applied the request whose application it reports.     *)
Handled(e, kind, texts, seen, h, queue, applied, n) ==
    /\ active' = [active EXCEPT ![e] = h.active]
    /\ decorations' = [decorations EXCEPT
                         ![e] = IF h.decorated THEN h.decorations ELSE @]
    /\ selections' = [selections EXCEPT ![e] = h.selections]
    /\ edits' = [edits EXCEPT ![e] = queue \o Stamped(h.issued, n, kind, queue)]
    /\ Len(edits'[e]) <= MaxEdits
    /\ last' = [kind |-> kind, editor |-> e, texts |-> texts,
                wasActive |-> active[e], seen |-> seen, spans |-> h.spans,
                ris |-> h.ris, issued |-> Stamped(h.issued, n, kind, queue),
                applied |-> applied]

(* An event the listeners of LeanInputAbbreviator drop; queue are the      *)
(* requests of editor e the host still holds.                              *)
Ignored(e, texts, sels, queue) ==
    /\ UNCHANGED <<active, decorations>>
    /\ edits' = [edits EXCEPT ![e] = queue]
    /\ selections' = [selections EXCEPT ![e] = sels]
    /\ last' = [NoEvent EXCEPT !.kind = "ignored", !.editor = e, !.texts = texts,
                               !.wasActive = active[e], !.seen = sels]

(* A change of the document of editor e reaches onChanged, the selections  *)
(* being those from before the change; the host sends the new selections   *)
(* in a selection event behind it.                                         *)
ChangeEvent(e, kind, newDoc, texts, newSels, queue, applied) ==
    /\ doc' = [doc EXCEPT ![e] = newDoc]
    /\ IF Dispatched(e)
       THEN /\ handlers' = handlers \cup {e}
            /\ Handled(e, kind, texts, selections[e],
                       OnChanged(active[e], newDoc, selections[e], leader,
                                 allTranslations, texts),
                       queue, applied, events')
       ELSE /\ Ignored(e, texts, selections[e], queue)
            /\ UNCHANGED handlers
    /\ pendingSel' = [pendingSel EXCEPT
                        ![e] = IF newSels = selections'[e] THEN << >> ELSE <<newSels>>]

(* The user types (or pastes) text at every cursor of editor e: one        *)
(* content change per cursor.                                              *)
TypeText(e, text) ==
    /\ events < MaxEvents
    /\ events' = events + 1
    /\ pendingSel[e] = << >>
    /\ LET newDoc == TypeInto(doc[e], selections[e], text)
       IN /\ \A line \in DOMAIN newDoc : Len(newDoc[line]) <= MaxLineLen
          /\ ChangeEvent(e, "change", newDoc, [i \in 1..Len(selections[e]) |-> text],
                         AfterTyping(selections[e], text), edits[e], NoRequest)
    /\ UNCHANGED <<tableVars, hostVars, call>>

(* The user presses backspace: no line is joined in the model.             *)
Backspace(e) ==
    /\ events < MaxEvents
    /\ events' = events + 1
    /\ pendingSel[e] = << >>
    /\ \A i \in 1..Len(selections[e]) :
          ~IsEmpty(selections[e][i]) \/ selections[e][i].active > 0
    /\ ChangeEvent(e, "change", DeleteFrom(doc[e], selections[e]),
                   [i \in 1..Len(selections[e]) |-> << >>],
                   AfterDeleting(selections[e]), edits[e], NoRequest)
    /\ UNCHANGED <<tableVars, hostVars, call>>

(* The selections of editor e become sels and the selection event reaches  *)
(* onSelectionChanged, which runs only for an editor with a handler.       *)
SelectionEvent(e, sels) ==
    /\ IF Dispatched(e) /\ e \in handlers
       THEN Handled(e, "selection", << >>, sels,
                    OnSelectionChanged(active[e], doc[e], sels, leader),
                    edits[e], NoRequest, events')
       ELSE Ignored(e, << >>, sels, edits[e])
    /\ UNCHANGED <<handlers, doc>>

(* The user moves the cursor, adds one or selects text.                    *)
MoveCursor(e, sels) ==
    /\ events < MaxEvents
    /\ events' = events + 1
    /\ pendingSel[e] = << >>
    /\ sels \in SelectionChoices(doc[e])
    /\ sels # selections[e]
    /\ SelectionEvent(e, sels)
    /\ UNCHANGED <<tableVars, hostVars, call, pendingSel>>

(* The selection event the host sent behind a change arrives.              *)
DeliverSelection(e) ==
    /\ pendingSel[e] # << >>
    /\ UNCHANGED events
    /\ SelectionEvent(e, pendingSel[e][1])
    /\ pendingSel' = [pendingSel EXCEPT ![e] = << >>]
    /\ UNCHANGED <<tableVars, hostVars, call>>

(* The command lean.input.convert on the active editor.                    *)
ConvertCommand(e) ==
    /\ events < MaxEvents
    /\ events' = events + 1
    /\ e = activeEditor
    /\ pendingSel[e] = << >>
    /\ e \in handlers
    /\ Handled(e, "command", << >>, selections[e],
               Convert(active[e], doc[e], selections[e], allTranslations),
               edits[e], NoRequest, events')
    /\ UNCHANGED <<tableVars, hostVars, call, handlers, doc, pendingSel>>

(* The texts of the content changes of an applied edit, the change of      *)
(* replacement `first` coming first.                                       *)
ChangeTexts(repls, first) ==
    [i \in 1..Len(repls) |->
       TextOf(repls[IF i = 1 THEN first ELSE IF i = first THEN 1 ELSE i].text)]

(* The host applies the oldest edit request of editor e, to the document   *)
(* as it is by now, and reports the change.                                *)
ApplyEdit(e, first, stick) ==
    /\ edits[e] # << >>
    /\ pendingSel[e] = << >>
    /\ UNCHANGED events
    /\ LET req == Head(edits[e])
           from == IF req.sels = << >> THEN selections[e] ELSE req.sels
       IN /\ first \in 1..Len(req.repls)
          /\ ChangeEvent(e, "applied", ApplyReplacements(doc[e], req.repls),
                         ChangeTexts(req.repls, first),
                         MovedSelections(doc[e], req.repls, from, stick),
                         Tail(edits[e]), req)
    /\ UNCHANGED <<tableVars, hostVars, call>>

(* The host does not apply the oldest edit request (the document moved on, *)
(* or the edit failed): the request is gone, nothing is retried.           *)
DropEdit(e) ==
    /\ edits[e] # << >>
    /\ pendingSel[e] = << >>
    /\ edits' = [edits EXCEPT ![e] = Tail(@)]
    /\ UNCHANGED <<tableVars, hostVars, call, handlers, active, decorations, doc,
                   selections, pendingSel, last, events>>

(* The texts a user event inserts, the last an auto-closed pair.            *)
Texts == {<<Backslash>>, <<"a">>, <<" ">>, <<"{">>, <<"}">>, <<"{", "}">>}

(* The base table of the editor specification.                             *)
EditorTable == << [k |-> <<"a">>, v |-> <<"X">>] >>

Init ==
    /\ translations = EditorTable
    /\ customTranslations = << >>
    /\ allTranslations = MergeTranslations(translations, customTranslations)
    /\ leader = <<Backslash>>
    /\ call = NoCall
    /\ EditorsInit
    /\ doc[2] = << << >>, << >> >>

Next ==
    \E e \in {1} :
       \/ \E text \in Texts : TypeText(e, text)
       \/ Backspace(e)
       \/ \E sels \in SelectionChoices(doc[e]) : MoveCursor(e, sels)
       \/ DeliverSelection(e)
       \/ ConvertCommand(e)
       \/ \E first \in 1..2, stick \in {"keep", "end"} : ApplyEdit(e, first, stick)
       \/ DropEdit(e)

Spec == Init /\ [][Next]_vars

---------------------------------------------------------------------------
(* The rest of the host and of the configuration: events that carry        *)
(* nothing, editors that are not the active one, documents of other        *)
(* languages, and a configuration that changes.                            *)

(* A change event of no content change (a save, or a change of the dirty   *)
(* state), for the document of editor e.                                   *)
EmptyChange(e) ==
    /\ events < MaxEvents
    /\ events' = events + 1
    /\ pendingSel[e] = << >>
    /\ ChangeEvent(e, "change", doc[e], << >>, selections[e], edits[e], NoRequest)
    /\ UNCHANGED <<tableVars, hostVars, call>>

(* The user makes editor e the active one: onDidChangeActiveTextEditor     *)
(* sets a context key of the host and nothing of the sessions.             *)
SwitchEditor(e) ==
    /\ e # activeEditor
    /\ activeEditor' = e
    /\ UNCHANGED <<tableVars, call, supported, editorVars>>

(* The record of a configuration change.                                   *)
ConfigEvent == [NoEvent EXCEPT !.kind = "config"]

(* onDidChangeConfiguration: the leader, the languages (as the editors     *)
(* whose document they match) and the custom translations are read again   *)
(* and the merged table is rebuilt.                                        *)
ConfigurationChanged(ldr, langs, custom) ==
    /\ events < MaxEvents
    /\ events' = events + 1
    /\ leader' = ldr
    /\ supported' = langs
    /\ customTranslations' = custom
    /\ allTranslations' = MergeTranslations(translations, custom)
    /\ last' = ConfigEvent
    /\ UNCHANGED <<translations, call, activeEditor, handlers, active, decorations,
                   doc, selections, pendingSel, edits>>

(* The leaders and the custom translations of the configurations of the    *)
(* model: the second custom table overrides the key of the base table, the *)
(* third overrides it with the empty string.                               *)
Leaders == {<<Backslash>>, <<"!">>}

CustomChoices ==
    { << >>,
      << [k |-> <<"a">>, v |-> <<"Y">>], [k |-> <<"b">>, v |-> <<"X">>] >>,
      << [k |-> <<"a">>, v |-> << >>] >> }

ConfigTexts == {<<Backslash>>, <<"!">>, <<"a">>}

(* One editor under a configuration that changes.                          *)
ConfigInit ==
    /\ translations = EditorTable
    /\ customTranslations \in CustomChoices
    /\ allTranslations = MergeTranslations(translations, customTranslations)
    /\ leader \in Leaders
    /\ call = NoCall
    /\ EditorsInit
    /\ doc = [e \in Editors |-> << << >>, << >> >>]

ConfigNext ==
    \E e \in {1} :
       \/ \E text \in ConfigTexts : TypeText(e, text)
       \/ DeliverSelection(e)
       \/ ConvertCommand(e)
       \/ \E first \in 1..2, stick \in {"keep", "end"} : ApplyEdit(e, first, stick)
       \/ DropEdit(e)
       \/ \E ldr \in Leaders, custom \in CustomChoices :
             ConfigurationChanged(ldr, supported, custom)

SpecConfig == ConfigInit /\ [][ConfigNext]_vars

(* Two editors, one of them active, and languages that change.             *)
LanguageChoices == {Editors, {1}}

HostTexts == {<<Backslash>>, <<"a">>}

HostInit ==
    /\ Init
    /\ doc[1] = << << >>, << >> >>

HostNext ==
    \E e \in Editors :
       \/ \E text \in HostTexts : TypeText(e, text)
       \/ EmptyChange(e)
       \/ \E sels \in SelectionChoices(doc[e]) : MoveCursor(e, sels)
       \/ DeliverSelection(e)
       \/ ConvertCommand(e)
       \/ SwitchEditor(e)
       \/ \E first \in 1..2, stick \in {"keep", "end"} : ApplyEdit(e, first, stick)
       \/ DropEdit(e)
       \/ \E langs \in LanguageChoices :
             ConfigurationChanged(leader, langs, customTranslations)

SpecHost == HostInit /\ [][HostNext]_vars


---------------------------------------------------------------------------
(* Properties of the sessions, under Spec.                                 *)

(* The last event ran a handler of TextEditorAbbrevHandler: a change with  *)
(* at least one content change (typed, or of an applied edit), a selection *)
(* event, or the convert command.                                          *)
HandledChange == last.kind \in {"change", "applied"} /\ Len(last.texts) > 0

HandledSelection == last.kind = "selection"

HandledCommand == last.kind = "command"

SawSelection == \E i \in 1..Len(last.seen) : ~IsEmpty(last.seen[i])

(* The handler outcome h leaves the session of editor e inactive and       *)
(* without decorations.                                                    *)
ClearedBy(e, h) ==
    /\ ~h.active
    /\ IF h.decorated THEN h.decorations = << >> ELSE decorations[e] = << >>

(* C1. Deactivation safety: after a change event or a selection event is   *)
(* handled while a cursor of the editor has a non-empty selection, the     *)
(* session is inactive and its decoration set is empty, whatever it was    *)
(* before and whatever text was inserted. It holds of the last event, and  *)
(* of the next one in every state: whatever selections with a non-empty    *)
(* one the handlers were to read there, and whatever text were inserted,   *)
(* they leave the session inactive and without decorations.                *)
C1_DeactivationSafety ==
    /\ ((HandledChange \/ HandledSelection) /\ SawSelection)
          => (~active[last.editor] /\ decorations[last.editor] = << >>)
    /\ \A e \in Editors : \A sels \in SelectionChoices(doc[e]), text \in Texts \cup {<< >>} :
          (\E i \in 1..Len(sels) : ~IsEmpty(sels[i])) =>
             /\ ClearedBy(e, OnChanged(active[e], doc[e], sels, leader,
                                       allTranslations, <<text>>))
             /\ ClearedBy(e, OnSelectionChanged(active[e], doc[e], sels, leader))

(* An active session has handled a selection event with a non-empty        *)
(* selection.                                                              *)
C1_Witness ==
    /\ HandledSelection
    /\ SawSelection
    /\ last.wasActive
    /\ ~active[last.editor]

(* C2. Session invariant: an inactive session has an empty decoration set, *)
(* a session is active exactly if its decoration set holds a range, and    *)
(* the set holds at most one range per cursor.                             *)
C2_SessionInvariant ==
    \A e \in Editors :
       /\ ~active[e] => decorations[e] = << >>
       /\ active[e] <=> Len(decorations[e]) >= 1
       /\ Len(decorations[e]) <= Len(selections[e])
       /\ \A i, j \in 1..Len(decorations[e]) :
             i # j => decorations[e][i].line # decorations[e][j].line

(* An active session with two cursors, one with a span and one without.    *)
C2_Witness ==
    \E e \in Editors :
       /\ active[e]
       /\ Len(selections[e]) = 2
       /\ Len(decorations[e]) = 1

RequestsOf(q) == {q[i] : i \in 1..Len(q)}

Covers(repl, span) ==
    repl.line = span.line /\ repl.start = span.start /\ repl.end = span.end

(* C6. No-match pass-through: when convert resolves a span whose           *)
(* abbreviation has no exact match, no extension and no resolvable prefix, *)
(* no edit is issued for that span.                                        *)
C6_NoMatchPassThrough ==
    (HandledChange \/ HandledCommand) =>
       \A i \in 1..Len(last.spans) :
          FindReplacementIn(allTranslations, Tail(last.spans[i].text)).tag # "string"
             => \A req \in RequestsOf(last.issued) :
                   \A k \in 1..Len(req.repls) : ~Covers(req.repls[k], last.spans[i])

(* The spans of the last convert that have a character behind the leader.  *)
Resolved == SelectSeq(last.spans, LAMBDA span : Len(span.text) >= 2)

ConvertRequests == SelectSeq(last.issued, LAMBDA req : req.by = "convert")

(* Several cursors, each with a span, when convert ran.                    *)
SeveralSpans == Len(last.spans) >= 2 /\ Len(last.spans) = Len(last.seen)

(* The selections the host has for editor e.                               *)
HostSelections(e) == IF pendingSel[e] # << >> THEN pendingSel[e][1] ELSE selections[e]

(* The request just applied is a convert request of several replacements   *)
(* that was issued in the last user event, with no request before it.      *)
AppliedBatch ==
    /\ last.kind = "applied"
    /\ last.applied.by = "convert"
    /\ Len(last.applied.repls) >= 2
    /\ last.applied.at = events
    /\ last.applied.ahead = 0
    /\ last.applied.on \in {"change", "command"}

(* Every span of the applied batch was resolved to a string.               *)
AllMatched ==
    \A k \in 1..Len(last.applied.repls) : last.applied.repls[k].text.tag = "string"

ReplacementEnd(repl) == repl.start + Len(TextOf(repl.text))

UpdateRequests == {req \in RequestsOf(last.issued) : req.by = "update"}

BracePair == <<"{", "{">>

FollowedByBraces(e, ri) == GetText(doc[e], ri.line, ri.end, ri.end + 2) = <<"}", "}">>

(* C10. Bracket pair: a span update finds with the text leader + {{ is     *)
(* expanded at once exactly if }} follows it in the document. If so, the   *)
(* edit issued replaces the span and the }} by the two glyphs and sets the *)
(* cursor one character behind the start of the span; if not, update       *)
(* issues no edit for the span and the span stays decorated.               *)
C10_BracketPair ==
    (HandledChange \/ HandledSelection) =>
       \A i \in 1..Len(last.ris) :
          LET ri == last.ris[i]
              e == last.editor
          IN ri.text = leader \o BracePair =>
               IF FollowedByBraces(e, ri)
               THEN \E req \in UpdateRequests :
                       /\ \E k \in 1..Len(req.repls) :
                             req.repls[k] = [line |-> ri.line, start |-> ri.start,
                                             end |-> ri.end + 2,
                                             text |-> JsString(<<"lwb", "rwb">>)]
                       /\ req.sels[ri.index] = Cursor(ri.line, ri.start + 1)
                       /\ selections[e][ri.index] = Cursor(ri.line, ri.start + 1)
               ELSE /\ \A req \in UpdateRequests :
                          \A k \in 1..Len(req.repls) : req.repls[k].line # ri.line
                    /\ active[e]
                    /\ \E k \in 1..Len(decorations[e]) :
                          decorations[e][k] = [line |-> ri.line, start |-> ri.start,
                                               end |-> ri.end]

(* The span leader + {{ was expanded.                                      *)
C10_Witness ==
    /\ HandledChange
    /\ \E i \in 1..Len(last.ris) :
          /\ last.ris[i].text = leader \o BracePair
          /\ FollowedByBraces(last.editor, last.ris[i])
    /\ UpdateRequests # {}

(* The span leader + {{ was not expanded, nothing following it.            *)
C10_WitnessNotFollowed ==
    /\ HandledChange
    /\ \E i \in 1..Len(last.ris) :
          /\ last.ris[i].text = leader \o BracePair
          /\ ~FollowedByBraces(last.editor, last.ris[i])
    /\ UpdateRequests = {}

(* The last event is a change of the user, or of an applied edit, whose    *)
(* first content change inserts the leader.                                *)
InsertedLeader == HandledChange /\ last.texts[1] = leader

(* C13. Leader typed while active: the handler resolves the current spans  *)
(* as a completing event would, issuing their edit request, and when it    *)
(* returns the session is active with fresh spans, one per cursor, that    *)
(* hold the newly typed leader only: the text of each is the leader and    *)
(* its range starts where the leader was inserted, at the cursor.          *)
C13_LeaderWhileActive ==
    (InsertedLeader /\ last.kind = "change" /\ last.wasActive /\ ~SawSelection) =>
       /\ Resolved # << >> => Len(ConvertRequests) = 1
       /\ active[last.editor]
       /\ Len(last.ris) = Len(last.seen)
       /\ \A i \in 1..Len(last.ris) :
             /\ last.ris[i].text = leader
             /\ last.ris[i].start = last.seen[last.ris[i].index].active
             /\ last.ris[i].end = last.ris[i].start + Len(leader)

(* C15. Multi-change guard: after a change event of more than one content  *)
(* change is handled, the session is inactive and its decoration set is    *)
(* empty, whatever it was before and whatever the texts inserted.          *)
C15_MultiChangeGuard ==
    (HandledChange /\ Len(last.texts) > 1)
    => (~active[last.editor] /\ decorations[last.editor] = << >>)

(* The last event ran convert and nothing behind it: the convert command,  *)
(* or a change while active whose first text is completing and is not the  *)
(* leader.                                                                 *)
RanConvertOnly ==
    \/ HandledCommand
    \/ /\ HandledChange
       /\ last.wasActive
       /\ last.texts[1] # leader
       /\ MatchesCompleting(last.texts[1])

(* What a call of convert leaves, h being its outcome: the session         *)
(* inactive, no decoration, at most one request, and a request only for a  *)
(* span with a character behind the leader.                                *)
OneShot(h) ==
    /\ ~h.active
    /\ h.decorated
    /\ h.decorations = << >>
    /\ Len(h.issued) <= 1
    /\ h.issued # << >> => \E i \in 1..Len(h.spans) : Len(h.spans[i].text) >= 2

ConvertPending(queue) == Len(SelectSeq(queue, LAMBDA req : req.by = "convert"))

(* C14. Completion is one-shot: every call of convert leaves the session   *)
(* inactive with an empty decoration set when it returns, whether or not a *)
(* span was found or resolved, and issues at most one edit request, only   *)
(* when some span has a character behind the leader; the request is never  *)
(* retried: the requests of convert that wait grow only by one, and only   *)
(* in an event whose handler ran convert on such a span. The first part is *)
(* stated of the last event, if it ran convert only, and of a call of      *)
(* convert in every state.                                                 *)
C14_CompletionOneShot ==
    /\ [](/\ RanConvertOnly =>
                /\ ~active[last.editor]
                /\ decorations[last.editor] = << >>
                /\ Len(last.issued) <= 1
                /\ last.issued # << >> => Resolved # << >>
          /\ \A e \in Editors :
                OneShot(Convert(active[e], doc[e], selections[e], allTranslations)))
    /\ [][\A e \in Editors :
            ConvertPending(edits'[e]) > ConvertPending(edits[e]) =>
               /\ ConvertPending(edits'[e]) = ConvertPending(edits[e]) + 1
               /\ last'.editor = e
               /\ last'.kind \in {"change", "applied", "command"}
               /\ \E i \in 1..Len(last'.spans) : Len(last'.spans[i].text) >= 2]_vars

(* A completing text typed while active made convert issue its request and *)
(* deactivate.                                                             *)
C14_Witness ==
    /\ RanConvertOnly
    /\ HandledChange
    /\ Len(last.issued) = 1
    /\ ~active[last.editor]

(* Two replacements touch the same text: they are on one line and their    *)
(* ranges share a character.                                               *)
Overlap(a, b) == a.line = b.line /\ a.start < b.end /\ b.start < a.end

(* C16. Race-free edits: under every interleaving of change events,        *)
(* selection events and applications of edits, no two edit requests of a   *)
(* session that are issued and not yet applied have overlapping target     *)
(* ranges.                                                                 *)
C16_RaceFreeEdits ==
    \A e \in Editors :
       \A i, j \in 1..Len(edits[e]) :
          i < j =>
             \A k \in 1..Len(edits[e][i].repls), l \in 1..Len(edits[e][j].repls) :
                ~Overlap(edits[e][i].repls[k], edits[e][j].repls[l])

(* The final character of the text is a closing bracket and the character  *)
(* before it is { or (.                                                    *)
CloserBehindOpener(text) ==
    /\ Len(text) >= 2
    /\ text[Len(text)] \in Closers
    /\ text[Len(text) - 1] \in {"{", "("}

(* C17. Closing bracket after an opening bracket is not completing: while  *)
(* active with single-point cursors, an inserted text whose final closing  *)
(* bracket is immediately preceded by { or ( triggers no resolution; it    *)
(* extends the spans as ordinary text does, to the end of the inserted     *)
(* text, and the session stays active.                                     *)
C17_CloserBehindOpener ==
    (/\ last.kind = "change"
     /\ HandledChange
     /\ last.wasActive
     /\ ~SawSelection
     /\ last.texts[1] # leader
     /\ CloserBehindOpener(last.texts[1])) =>
       /\ active[last.editor]
       /\ last.spans = << >>
       /\ ConvertRequests = << >>
       /\ last.ris # << >>
       /\ \A i \in 1..Len(last.ris) :
             last.ris[i].end = last.seen[last.ris[i].index].active + Len(last.texts[1])

RangesOf(decos) == {decos[i] : i \in 1..Len(decos)}

(* The spans of editor e are in step with its cursors: each decorated      *)
(* range starts with the backslash and ends at a cursor.                   *)
SpansAtCursors(e) ==
    \A d \in RangesOf(decorations[e]) :
       /\ d.end > d.start
       /\ doc[e][d.line][d.start + 1] = Backslash
       /\ \E i \in 1..Len(selections[e]) :
             /\ selections[e][i].line = d.line
             /\ selections[e][i].active = d.end

(* The step is the change event of a backspace in editor e, every cursor   *)
(* single-point, that deletes the character before each cursor.            *)
BackspaceStep(e) ==
    /\ events' = events + 1
    /\ last'.kind = "change"
    /\ last'.editor = e
    /\ last'.texts # << >>
    /\ \A i \in 1..Len(last'.texts) : last'.texts[i] = << >>
    /\ \A i \in 1..Len(selections[e]) : IsEmpty(selections[e][i])

(* The spans a backspace leaves: those that were longer than the leader,   *)
(* without their last character.                                           *)
Shrunk(decos) ==
    {[d EXCEPT !.end = @ - 1] : d \in {r \in RangesOf(decos) : r.end - r.start >= 2}}

C18_WitnessLeaderDeleted ==
    /\ last.kind = "change"
    /\ last.texts = << << >> >>
    /\ last.wasActive
    /\ ~SawSelection
    /\ ~active[last.editor]

(* The text of line `line` of document d from offset s to the cursor at c  *)
(* is the leader followed by a run without whitespace.                     *)
IsSpan(d, ldr, line, s, c) ==
    /\ 0 <= s
    /\ s + Len(ldr) <= c
    /\ c <= Len(d[line])
    /\ SubSeq(d[line], s + 1, s + Len(ldr)) = ldr
    /\ \A k \in (s + 1)..c : d[line][k] \notin Whitespace

(* The spans a re-scan may find for the cursor sel.                        *)
SpansAt(d, ldr, sel) ==
    {[line |-> sel.line, start |-> s, end |-> sel.active] :
        s \in {t \in 0..sel.active : IsSpan(d, ldr, sel.line, t, sel.active)}}

FirstSpanAt(d, ldr, sel) ==
    CHOOSE sp \in SpansAt(d, ldr, sel) :
       \A other \in SpansAt(d, ldr, sel) : sp.start <= other.start

(* The span sp of editor e is one update expands at once (C10).            *)
ExpandedAtOnce(e, sp) ==
    Expands(doc[e], leader,
            [index |-> 0, line |-> sp.line, start |-> sp.start, end |-> sp.end,
             text |-> SubSeq(doc[e][sp.line], sp.start + 1, sp.end)])

---------------------------------------------------------------------------
(* Properties of the configuration, under SpecConfig.                      *)

(* The merged table is the base table overridden by the custom one: it has *)
(* the keys of both, each once, a key of the custom table with its custom  *)
(* symbol and any other key with its base symbol.                          *)
MergedAsConfigured ==
    /\ KeysOf(allTranslations) = KeysOf(translations) \cup KeysOf(customTranslations)
    /\ Len(allTranslations) = Cardinality(KeysOf(allTranslations))
    /\ \A key \in KeysOf(customTranslations) :
          Get(allTranslations, key) = Get(customTranslations, key)
    /\ \A key \in KeysOf(translations) \ KeysOf(customTranslations) :
          Get(allTranslations, key) = Get(translations, key)

(* C20. Configuration change: after every configuration-change             *)
(* notification the merged table equals the base table overridden by the   *)
(* current custom translations, the override winning on every shared key   *)
(* and the base table itself unmodified; the notification leaves the       *)
(* active flag and the decoration set of every session unchanged and       *)
(* issues no edit.                                                         *)
C20_ConfigurationChange ==
    /\ [](last.kind = "config" => MergedAsConfigured)
    /\ [][last'.kind = "config" /\ events' # events =>
             /\ translations' = translations
             /\ active' = active
             /\ decorations' = decorations
             /\ edits' = edits]_vars

(* A configuration change overrode a key of the base table while the       *)
(* session was active.                                                     *)
C20_Witness ==
    /\ last.kind = "config"
    /\ active[1]
    /\ decorations[1] # << >>
    /\ \E key \in KeysOf(translations) \cap KeysOf(customTranslations) :
          Get(translations, key) # Get(customTranslations, key)

(* C12. Activation on leader: for every configured leader, when the        *)
(* session is inactive, every cursor is single-point and a change event    *)
(* inserts the leader at every cursor, the session becomes active with one *)
(* span per cursor, whose text is the leader and whose range is that of    *)
(* the inserted leader, and these ranges are the decorations.              *)
C12_ActivationOnLeader ==
    (/\ last.kind = "change"
     /\ HandledChange
     /\ ~last.wasActive
     /\ ~SawSelection
     /\ \A i \in 1..Len(last.texts) : last.texts[i] = leader) =>
       /\ active[last.editor]
       /\ Len(last.ris) = Len(last.seen)
       /\ Len(decorations[last.editor]) = Len(last.seen)
       /\ \A i \in 1..Len(last.ris) :
             /\ last.ris[i].text = leader
             /\ last.ris[i].start = last.seen[last.ris[i].index].active
             /\ last.ris[i].end = last.ris[i].start + Len(leader)
             /\ decorations[last.editor][i]
                   = [line |-> last.ris[i].line, start |-> last.ris[i].start,
                      end |-> last.ris[i].end]

(* The step handles a change event of editor e whose first content change  *)
(* inserts the leader.                                                     *)
LeaderChange(e) ==
    /\ last' # last
    /\ last'.editor = e
    /\ last'.kind \in {"change", "applied"}
    /\ last'.texts # << >>
    /\ last'.texts[1] = leader

(* C23. Activation only by the leader: the active flag of a session turns  *)
(* from false to true only in a step that handles a change event whose     *)
(* first content change inserts the leader; every other step (a selection  *)
(* event, a change of any other text, the convert command, a change of the *)
(* configuration) leaves an Inactive session Inactive and issues no edit   *)
(* for it.                                                                 *)
C23_ActivationOnlyByLeader ==
    [][\A e \in Editors :
          (~active[e] /\ ~LeaderChange(e)) =>
             /\ ~active'[e]
             /\ \/ edits'[e] = edits[e]
                \/ edits[e] # << >> /\ edits'[e] = Tail(edits[e])]_vars

(* A change that inserted the leader activated an Inactive session.        *)
C23_Witness ==
    /\ last.kind = "change"
    /\ last.texts # << >>
    /\ last.texts[1] = leader
    /\ ~last.wasActive
    /\ active[last.editor]

(* The convert command, a selection event, a change of another text and a  *)
(* change of the configuration each reached an Inactive session whose      *)
(* cursor stands behind a leader, and left it Inactive.                    *)
BehindLeader(e) ==
    /\ Len(selections[e]) = 1
    /\ IsEmpty(selections[e][1])
    /\ selections[e][1].active >= 1
    /\ doc[e][selections[e][1].line][selections[e][1].active] = leader[1]

C23_WitnessCommand ==
    /\ last.kind = "command"
    /\ ~last.wasActive
    /\ ~active[last.editor]
    /\ BehindLeader(last.editor)

C23_WitnessSelection ==
    /\ last.kind = "selection"
    /\ ~last.wasActive
    /\ ~active[last.editor]
    /\ BehindLeader(last.editor)

C23_WitnessOtherText ==
    /\ last.kind = "change"
    /\ last.texts = << <<"a">> >>
    /\ ~last.wasActive
    /\ ~active[last.editor]
    /\ leader = <<Backslash>>
    /\ \E c \in 1..Len(doc[1][1]) : doc[1][1][c] = Backslash

C23_WitnessConfiguration ==
    /\ last.kind = "config"
    /\ ~active[1]
    /\ 1 \in handlers
    /\ BehindLeader(1)

---------------------------------------------------------------------------
(* Properties of the listeners, under SpecHost.                            *)

(* The step is a change event or a selection event of editor e reaching    *)
(* the listeners.                                                          *)
EventStep(e) ==
    /\ last' # last
    /\ last'.editor = e
    /\ last'.kind \in {"ignored", "change", "selection", "applied"}

(* No request is issued in the step: the requests that wait are those that *)
(* waited, less the one the host has applied or dropped.                   *)
NoEditIssued ==
    \A e \in Editors :
       \/ edits'[e] = edits[e]
       \/ edits[e] # << >> /\ edits'[e] = Tail(edits[e])

(* C11. Language filter and ignored events: a change or selection event    *)
(* for a document that does not match the language filter, or for an       *)
(* editor that is not the active one, and a change event of no content     *)
(* change, leave the active flag and the decoration set of every session   *)
(* unchanged and issue no edit.                                            *)
C11_IgnoredEvents ==
    [][\A e \in Editors :
          (/\ EventStep(e)
           /\ \/ e \notin supported
              \/ e # activeEditor
              \/ last'.kind = "change" /\ last'.texts = << >>) =>
             /\ active' = active
             /\ decorations' = decorations
             /\ NoEditIssued]_vars

(* A change of the document of an editor that is not the active one, or    *)
(* not of a language of the filter, was dropped while its session was      *)
(* active.                                                                 *)
C11_Witness ==
    /\ last.kind = "ignored"
    /\ last.texts # << >>
    /\ active[last.editor]
    /\ decorations[last.editor] # << >>

(* A change event of no content change reached an active session.          *)
C11_WitnessEmptyChange ==
    /\ last.kind = "change"
    /\ last.texts = << >>
    /\ last.editor = activeEditor
    /\ last.editor \in supported
    /\ active[last.editor]


(* The session of editor x is not as it was before the step.               *)
SessionChanged(x) ==
    \/ active'[x] # active[x]
    \/ decorations'[x] # decorations[x]

(* C21. Session independence: the active flag and the decoration set of a  *)
(* session change only in a step that handles an event of its own editor,  *)
(* which is then the active editor; the sessions of all other editors, an  *)
(* Active session of an editor that is not the active one among them, stay *)
(* as they are.                                                            *)
C21_SessionIndependence ==
    [][\A x \in Editors :
          SessionChanged(x) =>
             /\ x = activeEditor
             /\ last'.editor = x
             /\ last'.kind \in {"change", "selection", "applied", "command"}]_vars

(* An event of the active editor changed its session while the session of  *)
(* the other editor was Active and decorated.                              *)
C21_Witness ==
    /\ last.kind \in {"change", "selection", "applied", "command"}
    /\ last.editor = activeEditor
    /\ last.wasActive # active[last.editor]
    /\ \E x \in Editors :
          /\ x # activeEditor
          /\ active[x]
          /\ decorations[x] # << >>

(* An Active session of an editor that is not the active one saw a change  *)
(* of its own document go by and is Active still.                          *)
C21_WitnessOwnChange ==
    /\ last.kind = "ignored"
    /\ last.editor # activeEditor
    /\ last.editor \in supported
    /\ last.texts # << >>
    /\ active[last.editor]

---------------------------------------------------------------------------
(* Properties of the tables and their queries, under SpecTable.            *)

CalledFind == call.op = "findReplacement"

CalledHover == call.op = "provideHover"

ExtendedBy(t, typedAbbrev) == {i \in 1..Len(t) : StartsWith(t[i].k, typedAbbrev)}

(* C3. Prefix fallback composes: for a non-empty A that is no key and that *)
(* no key starts with, if findReplacement(A minus its last character)      *)
(* yields a string R, then findReplacement(A) is R followed by the last    *)
(* character of A.                                                         *)
C3_PrefixFallbackComposes ==
    (/\ CalledFind
     /\ call.arg # << >>
     /\ ExtendedBy(allTranslations, call.arg) = {}
     /\ FindReplacementIn(allTranslations, DropLast(call.arg)).tag = "string")
    => call.result =
         JsString(FindReplacementIn(allTranslations, DropLast(call.arg)).str
                  \o LastChar(call.arg))

(* C4. Exact match wins: findReplacement of a key of the merged table      *)
(* returns exactly the symbol of that key, other keys extending it or not. *)
C4_ExactMatchWins ==
    (CalledFind /\ HasKey(allTranslations, call.arg))
    => call.result = JsString(allTranslations[IndexOfKey(allTranslations, call.arg)].v)

(* A key with a longer key extending it was resolved to its own symbol,    *)
(* which is not the symbol of the longer key.                              *)
C4_Witness ==
    /\ CalledFind
    /\ HasKey(allTranslations, call.arg)
    /\ \E i \in ExtendedBy(allTranslations, call.arg) :
          /\ allTranslations[i].k # call.arg
          /\ JsString(allTranslations[i].v) # call.result
    /\ call.result = Get(allTranslations, call.arg)

(* The entry the shortest-extension rule names: of the keys that start     *)
(* with the abbreviation, the first in iteration order of minimal length.  *)
FirstShortest(t, typedAbbrev) ==
    LET ext == ExtendedBy(t, typedAbbrev)
        shortest == {i \in ext : \A j \in ext : Len(t[i].k) <= Len(t[j].k)}
    IN CHOOSE i \in shortest : \A j \in shortest : i <= j

(* C5. Shortest extension: for a non-empty A that is no key, if some key   *)
(* starts with A, findReplacement(A) is the symbol of the key of minimal   *)
(* length among them, the first in iteration order when several have it.   *)
C5_ShortestExtension ==
    (/\ CalledFind
     /\ call.arg # << >>
     /\ ~HasKey(allTranslations, call.arg)
     /\ ExtendedBy(allTranslations, call.arg) # {})
    => call.result =
         JsString(allTranslations[FirstShortest(allTranslations, call.arg)].v)

(* Two keys of the same minimal length extend the abbreviation, with       *)
(* different symbols, and the first one's symbol was returned.             *)
C5_Witness ==
    /\ CalledFind
    /\ call.arg # << >>
    /\ ~HasKey(allTranslations, call.arg)
    /\ \E i, j \in ExtendedBy(allTranslations, call.arg) :
          /\ i < j
          /\ Len(allTranslations[i].k) = Len(allTranslations[j].k)
          /\ allTranslations[i].v # allTranslations[j].v
          /\ i = FirstShortest(allTranslations, call.arg)
          /\ call.result = JsString(allTranslations[i].v)

Overridden == KeysOf(translations) \cap KeysOf(customTranslations)

BaseSymbol(key) == translations[IndexOfKey(translations, key)].v

CustomSymbol(key) == customTranslations[IndexOfKey(customTranslations, key)].v

NoDuplicates(q) == \A i, j \in 1..Len(q) : i # j => q[i] # q[j]

(* C7. Override precedence: for a key of both tables, findReplacement      *)
(* returns the override's symbol, the abbreviations listed for the base    *)
(* symbol do not contain the key unless the override maps it to that same  *)
(* symbol, and no list of abbreviations holds an abbreviation twice.       *)
C7_OverridePrecedence ==
    /\ (CalledFind /\ call.arg \in Overridden)
          => call.result = JsString(CustomSymbol(call.arg))
    /\ CalledHover =>
          \A key \in Overridden :
             (call.arg = BaseSymbol(key) /\ CustomSymbol(key) # call.arg)
                => \A i \in 1..Len(call.abbrevs) : call.abbrevs[i] # key
    /\ CalledHover => NoDuplicates(call.abbrevs)

WithoutLeader(s) == SubSeq(s, Len(leader) + 1, Len(s))

(* The abbreviations of the hover message, in its order.                   *)
HoverAbbrevs == [i \in 1..Len(call.result.using) |-> WithoutLeader(call.result.using[i])]

OfLength(q, n) == SelectSeq(q, LAMBDA a : Len(a) = n)

(* C8. Hover ordering: the abbreviations of the hover message are in       *)
(* non-decreasing length, those of one length in the order getAbbrevations *)
(* found them (custom table, then base table, each in iteration order),    *)
(* and without any abbreviation there is no hover.                         *)
C8_HoverOrdering ==
    CalledHover =>
       /\ \A i, j \in 1..Len(HoverAbbrevs) :
             i < j => Len(HoverAbbrevs[i]) <= Len(HoverAbbrevs[j])
       /\ \A n \in 0..MaxTyped + 1 : OfLength(HoverAbbrevs, n) = OfLength(call.abbrevs, n)
       /\ \A i \in 1..Len(call.result.using) :
             StartsWith(call.result.using[i], leader)
       /\ call.result.hover = (call.abbrevs # << >>)
       /\ ((\A i \in 1..Len(translations) : translations[i].v # call.arg)
           /\ (\A i \in 1..Len(customTranslations) : customTranslations[i].v # call.arg))
          => (~call.result.hover /\ call.result.using = << >>)

(* The hover of a symbol lists a shorter abbreviation that the tables hold *)
(* after a longer one.                                                     *)
C8_Witness ==
    /\ CalledHover
    /\ call.result.hover
    /\ Len(call.abbrevs) >= 2
    /\ Len(call.abbrevs[1]) > Len(call.abbrevs[2])
    /\ HoverAbbrevs[1] = call.abbrevs[2]

(* C22. Resolution terminates: findReplacement(typedAbbrev) returns after  *)
(* at most Len(typedAbbrev) + 1 nested calls, the first on typedAbbrev and *)
(* each further one on the argument of the call before it less its last    *)
(* character; the call of the empty string returns no replacement and does *)
(* not read the table.                                                     *)
C22_ResolutionTerminates ==
    CalledFind =>
       /\ Len(call.calls) >= 1
       /\ Len(call.calls) <= Len(call.arg) + 1
       /\ call.calls[1].arg = call.arg
       /\ \A i \in 1..(Len(call.calls) - 1) :
             /\ call.calls[i].arg # << >>
             /\ call.calls[i + 1].arg = DropLast(call.calls[i].arg)
       /\ \A i \in 1..Len(call.calls) :
             call.calls[i].arg = << >> =>
                /\ ~call.calls[i].consulted
                /\ i = Len(call.calls)
       /\ call.arg = << >> => call.result = Undefined

(* A call that recursed down to the empty string: Len(typedAbbrev) + 1     *)
(* nested calls of an abbreviation of the longest length, over a table     *)
(* that is not empty.                                                      *)
C22_Witness ==
    /\ CalledFind
    /\ Len(call.arg) = MaxTyped
    /\ Len(call.calls) = MaxTyped + 1
    /\ allTranslations # << >>
    /\ ~call.calls[Len(call.calls)].consulted

(* The call of the empty string over a table that is not empty.            *)
C22_WitnessEmpty ==
    /\ CalledFind
    /\ call.arg = << >>
    /\ allTranslations # << >>

(* C24. Hover/expansion round trip: every abbreviation that                *)
(* getAbbrevations(symbol) returns, over the base and the custom table,    *)
(* resolves to that symbol: findReplacement of it, over the merged table,  *)
(* returns symbol.                                                         *)
C24_HoverRoundTrip ==
    CalledHover =>
       \A i \in 1..Len(call.abbrevs) :
          FindReplacementIn(allTranslations, call.abbrevs[i]) = JsString(call.arg)

===========================================================================
